---- MODULE Spec2Model ----
(***************************************************************************)
(* Model of the beam analysis engine of src/js/beam-analysis.js: the       *)
(* BeamAnalysis dispatcher, the simplySupported and twoSpanUnequal         *)
(* analyzers and the six equation closures they build.                     *)
(*                                                                         *)
(* JavaScript numbers are modelled by exact values (n/d) * 10^e together   *)
(* with the three non-finite values NaN, +Infinity and -Infinity.  Zero    *)
(* has one representation (JavaScript's == does not tell -0 from 0).  The  *)
(* inputs are integers and halves, for which the sums, products and        *)
(* halvings of the bending-moment and shear-force formulas are exact in    *)
(* IEEE doubles as well.                                                   *)
(***************************************************************************)
EXTENDS Integers, Sequences, FiniteSets, TLC

VARIABLES options, analyzer, beam, load, call, ret, sample, thrown, frame

vars == <<options, analyzer, beam, load, call, ret, sample, thrown, frame>>

(***************************************************************************)
(* Bounds of the model.                                                    *)
(***************************************************************************)
\* Primary spans are the integers 1..MaxPrimarySpan.
MaxPrimarySpan == 4

\* Secondary spans are the integers 0..MaxSecondarySpan.
MaxSecondarySpan == 2

\* Positions are the multiples of 1/2 from -1/2 up to the longest total
\* length plus Beyond.
Beyond == 1

(***************************************************************************)
(* JavaScript numbers.                                                     *)
(* A finite number is [n, d, e] with value (n/d) * 10^e, d > 0,            *)
(* gcd(n, d) = 1 and neither n nor d divisible by 5 (so e is the 5-adic    *)
(* valuation and the representation is unique); zero is [0, 1, 0].         *)
(* d = 0 marks the non-finite values.                                      *)
(***************************************************************************)
NaN == [n |-> 0, d |-> 0, e |-> 0]

PosInf == [n |-> 1, d |-> 0, e |-> 0]

NegInf == [n |-> -1, d |-> 0, e |-> 0]

IsFinite(a) == a.d # 0

IsNaN(a) == a.d = 0 /\ a.n = 0

Abs(i) == IF i < 0 THEN -i ELSE i

Sign(i) == IF i < 0 THEN -1 ELSE IF i > 0 THEN 1 ELSE 0

Min(i, j) == IF i <= j THEN i ELSE j

RECURSIVE GCD(_, _)
GCD(i, j) == IF j = 0 THEN i ELSE GCD(j, i % j)

RECURSIVE Pow10(_)
Pow10(k) == IF k <= 0 THEN 1 ELSE 10 * Pow10(k - 1)

RECURSIVE Norm(_, _, _)
Norm(n, d, e) ==
    IF n = 0 THEN [n |-> 0, d |-> 1, e |-> 0]
    ELSE IF n % 5 = 0 THEN Norm(n \div 5, 2 * d, e + 1)
    ELSE IF d % 5 = 0 THEN Norm(2 * n, d \div 5, e - 1)
    ELSE LET g == GCD(Abs(n), d)
         IN  [n |-> n \div g, d |-> d \div g, e |-> e]

\* An integer literal, and a literal fraction such as 0.5 = Frac(1, 2).
Num(i) == Norm(i, 1, 0)

Frac(i, j) == Norm(i, j, 0)

Zero == Num(0)

\* The sign of a number that is not NaN: -1, 0 or 1.
SignOf(a) == Sign(a.n)

RNeg(a) == [a EXCEPT !.n = -a.n]

RAdd(a, b) ==
    IF IsNaN(a) \/ IsNaN(b) THEN NaN
    ELSE IF ~IsFinite(a) THEN (IF ~IsFinite(b) /\ b.n # a.n THEN NaN ELSE a)
    ELSE IF ~IsFinite(b) THEN b
    ELSE LET em == Min(a.e, b.e)
             an == a.n * Pow10(a.e - em)
             bn == b.n * Pow10(b.e - em)
             g  == GCD(a.d, b.d)
         IN  Norm(an * (b.d \div g) + bn * (a.d \div g), a.d * (b.d \div g), em)

RSub(a, b) == RAdd(a, RNeg(b))

RMul(a, b) ==
    IF IsNaN(a) \/ IsNaN(b) THEN NaN
    ELSE IF ~IsFinite(a) \/ ~IsFinite(b)
         THEN (IF SignOf(a) * SignOf(b) = 0 THEN NaN
               ELSE IF SignOf(a) * SignOf(b) > 0 THEN PosInf ELSE NegInf)
    ELSE LET g1 == GCD(Abs(a.n), b.d)
             g2 == GCD(Abs(b.n), a.d)
         IN  Norm((a.n \div g1) * (b.n \div g2), (a.d \div g2) * (b.d \div g1), a.e + b.e)

\* Every divisor of the source that can be zero is the positive zero of a
\* span, so a finite nonzero number divided by zero takes its own sign.
RDiv(a, b) ==
    IF IsNaN(a) \/ IsNaN(b) THEN NaN
    ELSE IF ~IsFinite(a)
         THEN (IF ~IsFinite(b) THEN NaN
               ELSE IF SignOf(a) * (IF SignOf(b) < 0 THEN -1 ELSE 1) > 0 THEN PosInf
               ELSE NegInf)
    ELSE IF ~IsFinite(b) THEN Zero
    ELSE IF b.n = 0
         THEN (IF a.n = 0 THEN NaN ELSE IF a.n > 0 THEN PosInf ELSE NegInf)
    ELSE RMul(a, Norm(Sign(b.n) * b.d, Abs(b.n), -b.e))

\* Comparisons; every comparison with NaN is false.
RCmp(a, b) == SignOf(RSub(a, b))

RLe(a, b) == ~IsNaN(a) /\ ~IsNaN(b) /\ (a = b \/ RCmp(a, b) < 0)

RGe(a, b) == RLe(b, a)

RLt(a, b) == ~IsNaN(a) /\ ~IsNaN(b) /\ a # b /\ RCmp(a, b) < 0

RGt(a, b) == RLt(b, a)

REq(a, b) == ~IsNaN(a) /\ ~IsNaN(b) /\ a = b

\* Math.pow(a, k) for the exponents the source uses (2, 3, 4).
RECURSIVE MathPow(_, _)
MathPow(a, k) == IF k = 0 THEN Num(1) ELSE RMul(a, MathPow(a, k - 1))

(***************************************************************************)
(* Values.                                                                 *)
(***************************************************************************)
\* No value: nothing returned, nothing thrown, no locals.
None == [none |-> TRUE]

\* function Material(name, properties)
Material(name, properties) == [name |-> name, properties |-> properties]

\* function Beam(primarySpan, secondarySpan, material)
Beam(primarySpan, secondarySpan, material) ==
    [primarySpan |-> primarySpan, secondarySpan |-> secondarySpan, material |-> material]

\* new Error(message), and the TypeError the runtime throws for a call of
\* something that is not a function.
Error(message) == [name |-> "Error", message |-> message]

TypeError(message) == [name |-> "TypeError", message |-> message]

\* The flexural rigidities, the loads and the scale factors callers pass.
EIs == {Num(1000), Num(210000)}

Loads == {Num(-3), Num(0), Num(10)}

J2s == {Num(2), Num(3)}

Beams ==
    {Beam(Num(p), Num(s), Material("No Name", [EI |-> ei])) :
        p \in 1 .. MaxPrimarySpan, s \in 0 .. MaxSecondarySpan, ei \in EIs}

\* Positions: the multiples of 1/2 from -1/2 to the longest total length
\* plus Beyond.
Positions == {Frac(k, 2) : k \in -1 .. 2 * (MaxPrimarySpan + MaxSecondarySpan + Beyond)}

\* Argument lists of an equation call: equation(x) and equation(x, j2).
ArgLists == {<<x>> : x \in Positions} \cup {<<x, j>> : x \in Positions, j \in J2s}

\* Condition names callers pass: the two supported ones, an unknown one, and
\* one that names a member every object inherits from Object.prototype.
Conditions == {"simply-supported", "two-span-unequal", "triple-span", "constructor"}

\* The members an object literal inherits from Object.prototype.
ObjectPrototype ==
    {"constructor", "toString", "valueOf", "hasOwnProperty", "isPrototypeOf",
     "propertyIsEnumerable", "toLocaleString", "__proto__"}

\* The analyzer instances, and the methods each of them has.
AnalyzerInstances == {"simplySupported", "twoSpanUnequal"}

AnalyzerMethods == {"getDeflectionEquation", "getBendingMomentEquation", "getShearForceEquation"}

\* analyzer.method is a function: a member inherited from Object.prototype
\* has none of the analyzer methods.
HasMethod(an, method) == an \in AnalyzerInstances /\ method \in AnalyzerMethods

\* this.analyzer of a new BeamAnalysis().
AnalyzerTable ==
    ("simply-supported" :> "simplySupported") @@ ("two-span-unequal" :> "twoSpanUnequal")

\* table[key]: an own property, a member inherited from Object.prototype,
\* or undefined.
GetProperty(table, key) ==
    IF key \in DOMAIN table THEN table[key]
    ELSE IF key \in ObjectPrototype THEN "inherited"
    ELSE "undefined"

\* The closure an analyzer method returns: it captures beam and load.
Closure(an, method, b, l) == [analyzer |-> an, method |-> method, beam |-> b, load |-> l]

\* Dispatch with the analyzer of this.options.condition handed out in place
\* of the analyzer looked up for the condition passed.
Dispatch_ByOptions(table, b, l, condition, method) ==
    LET an == GetProperty(table, condition)
    IN  IF an # "undefined"
        THEN IF HasMethod(an, method)
             THEN [ret |-> [beam |-> b, load |-> l,
                            equation |-> Closure(table["simply-supported"], method, b, l)],
                   thrown |-> None]
             ELSE [ret |-> None, thrown |-> TypeError("analyzer." \o method \o " is not a function")]
        ELSE [ret |-> None, thrown |-> Error("Invalid condition")]

(***************************************************************************)
(* BeamAnalysis.prototype: the body shared by getDeflection,               *)
(* getBendingMoment and getShearForce, which differ in the analyzer method *)
(* they call.  The outcome is the value returned or the error thrown.      *)
(***************************************************************************)
Dispatch(table, b, l, condition, method) ==
    LET an == GetProperty(table, condition)
    IN  IF an # "undefined"
        THEN IF HasMethod(an, method)
             THEN [ret |-> [beam |-> b, load |-> l, equation |-> Closure(an, method, b, l)],
                   thrown |-> None]
             ELSE [ret |-> None, thrown |-> TypeError("analyzer." \o method \o " is not a function")]
        ELSE [ret |-> None, thrown |-> Error("Invalid condition")]

(***************************************************************************)
(* The equation closures.  Each takes the captured beam and load and the   *)
(* argument list of the call, and yields the sample returned or the error  *)
(* thrown, with the closure's local reactions (frame) where it has any.    *)
(***************************************************************************)
\* The second parameter of the simply supported deflection equation: j2 = 2.
DefaultJ2(args) == IF Len(args) >= 2 THEN args[2] ELSE Num(2)

\* The bounds test of the simply supported deflection equation.
DeflectionInBounds(x, b) == RGe(x, Zero) \/ RLe(x, b.primarySpan)

\* The bounds test of the simply supported bending moment equation.
BendingMomentInBounds(x, b) == RGe(x, Zero) /\ RLe(x, b.primarySpan)

\* The bounds test of the simply supported shear force equation.
ShearForceInBounds(x, b) == RGe(x, Zero) /\ RLe(x, b.primarySpan)

\* The deflection with Math.pow(x, 2) for the last term of the cubic.
simplySupported_getDeflectionEquation_Square(b, l, args) ==
    LET x  == args[1]
        j2 == DefaultJ2(args)
    IN  IF DeflectionInBounds(x, b)
        THEN LET w  == l
                 L  == b.primarySpan
                 EI == b.material.properties.EI
                 deflection ==
                     RMul(RMul(RMul(
                         RNeg(RDiv(RMul(w, x),
                                   RMul(Num(24), RDiv(EI, MathPow(Num(1000), 3))))),
                         RAdd(RSub(MathPow(L, 3),
                                   RMul(RMul(Num(2), L), MathPow(x, 2))),
                              MathPow(x, 2))),
                         j2),
                         Num(1000))
             IN  [sample |-> [x |-> x, y |-> deflection], thrown |-> None, frame |-> None]
        ELSE [sample |-> None, thrown |-> Error("x is out of bounds"), frame |-> None]

simplySupported_getDeflectionEquation(b, l, args) ==
    LET x  == args[1]
        j2 == DefaultJ2(args)
    IN  IF DeflectionInBounds(x, b)
        THEN LET w  == l
                 L  == b.primarySpan
                 EI == b.material.properties.EI
                 deflection ==
                     RMul(RMul(RMul(
                         RNeg(RDiv(RMul(w, x),
                                   RMul(Num(24), RDiv(EI, MathPow(Num(1000), 3))))),
                         RAdd(RSub(MathPow(L, 3),
                                   RMul(RMul(Num(2), L), MathPow(x, 2))),
                              MathPow(x, 3))),
                         j2),
                         Num(1000))
             IN  [sample |-> [x |-> x, y |-> deflection], thrown |-> None, frame |-> None]
        ELSE [sample |-> None, thrown |-> Error("x is out of bounds"), frame |-> None]

\* The bending moment with (L + x) for (L - x).
simplySupported_getBendingMomentEquation_Sum(b, l, args) ==
    LET x == args[1]
    IN  IF BendingMomentInBounds(x, b)
        THEN LET w == l
                 L == b.primarySpan
                 bendingMoment == RNeg(RMul(RDiv(RMul(w, x), Num(2)), RAdd(L, x)))
             IN  [sample |-> [x |-> x, y |-> bendingMoment], thrown |-> None, frame |-> None]
        ELSE [sample |-> None, thrown |-> Error("x is out of bounds"), frame |-> None]

simplySupported_getBendingMomentEquation(b, l, args) ==
    LET x == args[1]
    IN  IF BendingMomentInBounds(x, b)
        THEN LET w == l
                 L == b.primarySpan
                 bendingMoment == RNeg(RMul(RDiv(RMul(w, x), Num(2)), RSub(L, x)))
             IN  [sample |-> [x |-> x, y |-> bendingMoment], thrown |-> None, frame |-> None]
        ELSE [sample |-> None, thrown |-> Error("x is out of bounds"), frame |-> None]

\* The shear force with the span in place of half the span.
simplySupported_getShearForceEquation_WholeSpan(b, l, args) ==
    LET x == args[1]
    IN  IF ShearForceInBounds(x, b)
        THEN LET shearForce == RMul(l, RSub(b.primarySpan, x))
             IN  [sample |-> [x |-> x, y |-> shearForce], thrown |-> None, frame |-> None]
        ELSE [sample |-> None, thrown |-> Error("x is out of bounds"), frame |-> None]

simplySupported_getShearForceEquation(b, l, args) ==
    LET x == args[1]
    IN  IF ShearForceInBounds(x, b)
        THEN LET shearForce == RMul(l, RSub(RDiv(b.primarySpan, Num(2)), x))
             IN  [sample |-> [x |-> x, y |-> shearForce], thrown |-> None, frame |-> None]
        ELSE [sample |-> None, thrown |-> Error("x is out of bounds"), frame |-> None]

\* The second parameter of the two-span deflection equation has no default:
\* omitted, it is undefined, which the arithmetic turns into NaN.
PlainJ2(args) == IF Len(args) >= 2 THEN args[2] ELSE NaN

\* The interior moment without its leading minus sign.
InteriorMoment_Positive(w, L1, L2) ==
    RDiv(RAdd(RMul(w, MathPow(L2, 3)), RMul(w, MathPow(L1, 3))),
         RMul(Num(8), RAdd(L1, L2)))

\* var m = -((w * L2^3) + (w * L1^3)) / (8 * (L1 + L2)), the same expression
\* in the three equations.
InteriorMoment(w, L1, L2) ==
    RDiv(RNeg(RAdd(RMul(w, MathPow(L2, 3)), RMul(w, MathPow(L1, 3)))),
         RMul(Num(8), RAdd(L1, L2)))

\* m, R1, R3, R2 as the deflection equation derives them.
DeflectionReactions(b, l) ==
    LET w  == l
        L1 == b.primarySpan
        L2 == b.secondarySpan
        m  == InteriorMoment(w, L1, L2)
        R1 == RAdd(RDiv(m, L1), RMul(RMul(w, L1), Frac(1, 2)))
        R3 == RAdd(RDiv(m, L2), RMul(RMul(w, L2), Frac(1, 2)))
        R2 == RSub(RSub(RMul(w, RAdd(L1, L2)), R1), R3)
    IN  [m |-> m, R1 |-> R1, R3 |-> R3, R2 |-> R2]

\* m, R1, R3, R2 as the bending moment equation derives them.
BendingMomentReactions(b, l) ==
    LET w  == l
        L1 == b.primarySpan
        L2 == b.secondarySpan
        m  == InteriorMoment(w, L1, L2)
        R1 == RAdd(RDiv(m, L1), RMul(RMul(w, L1), Frac(1, 2)))
        R3 == RAdd(RDiv(m, L2), RDiv(RMul(w, L2), Num(2)))
        R2 == RSub(RSub(RAdd(RMul(w, L1), RMul(w, L2)), R1), R3)
    IN  [m |-> m, R1 |-> R1, R3 |-> R3, R2 |-> R2]

\* m, R1, R3, R2 as the shear force equation derives them.
ShearForceReactions(b, l) ==
    LET w  == l
        L1 == b.primarySpan
        L2 == b.secondarySpan
        m  == InteriorMoment(w, L1, L2)
        R1 == RAdd(RDiv(m, L1), RMul(RMul(w, L1), Frac(1, 2)))
        R3 == RAdd(RDiv(m, L2), RDiv(RMul(w, L2), Num(2)))
        R2 == RSub(RSub(RAdd(RMul(w, L1), RMul(w, L2)), R1), R3)
    IN  [m |-> m, R1 |-> R1, R3 |-> R3, R2 |-> R2]

\* var EI_kNm2 = EI / Math.pow(1000, 4)
EIkNm2(EI) == RDiv(EI, MathPow(Num(1000), 4))

\* The two branches of the deflection, from the closure's locals.
TwoSpanDeflection(x, j2, w, L1, EI_kNm2, R1, R2) ==
    IF RLe(x, L1)
    THEN RMul(RMul(RMul(RMul(
             RDiv(x, RMul(Num(24), EI_kNm2)),
             RSub(RAdd(RSub(RMul(RMul(Num(4), R1), MathPow(x, 2)),
                            RMul(w, MathPow(x, 3))),
                       RMul(w, MathPow(L1, 3))),
                  RMul(RMul(Num(4), R1), MathPow(L1, 2)))),
             Num(1000)), j2), Num(1000))
    ELSE RMul(RMul(RDiv(
             RSub(RSub(RAdd(
                 RMul(RDiv(RMul(R1, x), Num(6)),
                      RSub(MathPow(x, 2), MathPow(L1, 2))),
                 RMul(RDiv(RMul(R2, x), Num(6)),
                      RAdd(RSub(MathPow(x, 2), RMul(RMul(Num(3), L1), x)),
                           RMul(Num(3), MathPow(L1, 2))))),
                 RDiv(RMul(R2, MathPow(L1, 3)), Num(6))),
                 RMul(RDiv(RMul(w, x), Num(24)),
                      RSub(MathPow(x, 3), MathPow(L1, 3)))),
             EI_kNm2), Num(1000)), j2)

twoSpanUnequal_getDeflectionEquation(b, l, args) ==
    LET r == DeflectionReactions(b, l)
        deflection ==
            TwoSpanDeflection(args[1], PlainJ2(args), l, b.primarySpan,
                              EIkNm2(b.material.properties.EI), r.R1, r.R2)
    IN  [sample |-> [x |-> args[1], EI |-> EIkNm2(b.material.properties.EI),
                     y |-> RDiv(deflection, Num(1000000))],
         thrown |-> None, frame |-> r]

\* The bending moment with the interior reaction left out beyond L1.
TwoSpanBendingMoment_NoInterior(x, w, L1, totalLength, R1, R2) ==
    IF REq(x, Zero) \/ REq(x, totalLength) THEN Zero
    ELSE IF RLt(x, L1)
         THEN RNeg(RSub(RMul(R1, x), RMul(RMul(Frac(1, 2), w), MathPow(x, 2))))
    ELSE IF RGt(x, L1)
         THEN RNeg(RSub(RMul(R1, x), RMul(RMul(Frac(1, 2), w), MathPow(x, 2))))
    ELSE RNeg(RSub(RMul(R1, L1), RMul(RMul(Frac(1, 2), w), MathPow(L1, 2))))

\* The four branches of the bending moment, from the closure's locals.
TwoSpanBendingMoment(x, w, L1, totalLength, R1, R2) ==
    IF REq(x, Zero) \/ REq(x, totalLength) THEN Zero
    ELSE IF RLt(x, L1)
         THEN RNeg(RSub(RMul(R1, x), RMul(RMul(Frac(1, 2), w), MathPow(x, 2))))
    ELSE IF RGt(x, L1)
         THEN RNeg(RSub(RAdd(RMul(R1, x), RMul(R2, RSub(x, L1))),
                        RMul(RMul(Frac(1, 2), w), MathPow(x, 2))))
    ELSE RNeg(RSub(RMul(R1, L1), RMul(RMul(Frac(1, 2), w), MathPow(L1, 2))))

twoSpanUnequal_getBendingMomentEquation(b, l, args) ==
    LET r == BendingMomentReactions(b, l)
        bendingMoment ==
            TwoSpanBendingMoment(args[1], l, b.primarySpan,
                                 RAdd(b.primarySpan, b.secondarySpan), r.R1, r.R2)
    IN  [sample |-> [x |-> args[1], R1 |-> r.R1, M |-> r.m, y |-> bendingMoment],
         thrown |-> None, frame |-> r]

\* The two branches of the shear force, from the closure's locals.
TwoSpanShearForce(x, w, L1, R1, R2) ==
    IF RLe(x, L1) THEN RSub(R1, RMul(w, x))
    ELSE RSub(RAdd(R1, R2), RMul(w, x))

twoSpanUnequal_getShearForceEquation(b, l, args) ==
    LET r == ShearForceReactions(b, l)
        shearForce == TwoSpanShearForce(args[1], l, b.primarySpan, r.R1, r.R2)
    IN  [sample |-> [x |-> args[1], y |-> shearForce], thrown |-> None, frame |-> r]

(***************************************************************************)
(* The state machine.  A caller holds one beam and one load, asks the      *)
(* engine for equations and evaluates the equation it was last given.      *)
(*   call    the last call made: its operation and arguments               *)
(*   ret     the record the last engine call returned (kept while its      *)
(*           equation is evaluated), None if it threw                      *)
(*   sample  what the last equation call returned, None if it threw        *)
(*   thrown  the error the last call threw, None if it returned            *)
(*   frame   m, R1, R3, R2 of the last two-span equation call              *)
(***************************************************************************)
Init ==
    /\ options = [condition |-> "simply-supported"]
    /\ analyzer = AnalyzerTable
    /\ beam \in Beams
    /\ load \in Loads
    /\ call = None
    /\ ret = None
    /\ sample = None
    /\ thrown = None
    /\ frame = None

\* The outcome of an engine call becomes the caller's state.
EngineCall(result) ==
    \E out \in {result} :
        /\ ret' = out.ret
        /\ thrown' = out.thrown
        /\ sample' = None
        /\ frame' = None
        /\ UNCHANGED <<options, analyzer, beam, load>>

getDeflection(condition) ==
    /\ call' = [op |-> "getDeflection", condition |-> condition]
    /\ EngineCall(Dispatch(analyzer, beam, load, condition, "getDeflectionEquation"))

getBendingMoment(condition) ==
    /\ call' = [op |-> "getBendingMoment", condition |-> condition]
    /\ EngineCall(Dispatch(analyzer, beam, load, condition, "getBendingMomentEquation"))

getShearForce(condition) ==
    /\ call' = [op |-> "getShearForce", condition |-> condition]
    /\ EngineCall(Dispatch(analyzer, beam, load, condition, "getShearForceEquation"))

\* The caller holds the equation of analyzer an built by method.
Holds(an, method) ==
    /\ ret # None
    /\ ret.equation.analyzer = an
    /\ ret.equation.method = method

\* The outcome of every call of every closure the engine can hand out, one
\* table per analyzer method, each computed once.
SimplySupportedDeflectionOutcome ==
    [b \in Beams, l \in Loads |->
        [args \in ArgLists |-> simplySupported_getDeflectionEquation(b, l, args)]]

SimplySupportedBendingMomentOutcome ==
    [b \in Beams, l \in Loads |->
        [x \in Positions |-> simplySupported_getBendingMomentEquation(b, l, <<x>>)]]

SimplySupportedShearForceOutcome ==
    [b \in Beams, l \in Loads |->
        [x \in Positions |-> simplySupported_getShearForceEquation(b, l, <<x>>)]]

TwoSpanUnequalDeflectionOutcome ==
    [b \in Beams, l \in Loads |->
        [args \in ArgLists |-> twoSpanUnequal_getDeflectionEquation(b, l, args)]]

TwoSpanUnequalBendingMomentOutcome ==
    [b \in Beams, l \in Loads |->
        [x \in Positions |-> twoSpanUnequal_getBendingMomentEquation(b, l, <<x>>)]]

TwoSpanUnequalShearForceOutcome ==
    [b \in Beams, l \in Loads |->
        [x \in Positions |-> twoSpanUnequal_getShearForceEquation(b, l, <<x>>)]]

\* An equation call: the outcome of the closure becomes the caller's state.
EquationCall(args, result) ==
    \E out \in {result} :
        /\ call' = [op |-> "equation", args |-> args]
        /\ sample' = out.sample
        /\ thrown' = out.thrown
        /\ frame' = out.frame
        /\ UNCHANGED <<options, analyzer, beam, load, ret>>

SimplySupportedDeflection(args) ==
    /\ Holds("simplySupported", "getDeflectionEquation")
    /\ EquationCall(args,
           SimplySupportedDeflectionOutcome[ret.equation.beam, ret.equation.load][args])

SimplySupportedBendingMoment(x) ==
    /\ Holds("simplySupported", "getBendingMomentEquation")
    /\ EquationCall(<<x>>,
           SimplySupportedBendingMomentOutcome[ret.equation.beam, ret.equation.load][x])

SimplySupportedShearForce(x) ==
    /\ Holds("simplySupported", "getShearForceEquation")
    /\ EquationCall(<<x>>,
           SimplySupportedShearForceOutcome[ret.equation.beam, ret.equation.load][x])

TwoSpanUnequalDeflection(args) ==
    /\ Holds("twoSpanUnequal", "getDeflectionEquation")
    /\ EquationCall(args,
           TwoSpanUnequalDeflectionOutcome[ret.equation.beam, ret.equation.load][args])

TwoSpanUnequalBendingMoment(x) ==
    /\ Holds("twoSpanUnequal", "getBendingMomentEquation")
    /\ EquationCall(<<x>>,
           TwoSpanUnequalBendingMomentOutcome[ret.equation.beam, ret.equation.load][x])

TwoSpanUnequalShearForce(x) ==
    /\ Holds("twoSpanUnequal", "getShearForceEquation")
    /\ EquationCall(<<x>>,
           TwoSpanUnequalShearForceOutcome[ret.equation.beam, ret.equation.load][x])

Next ==
    \/ \E condition \in Conditions : getDeflection(condition)
    \/ \E condition \in Conditions : getBendingMoment(condition)
    \/ \E condition \in Conditions : getShearForce(condition)
    \/ \E args \in ArgLists : SimplySupportedDeflection(args)
    \/ \E x \in Positions : SimplySupportedBendingMoment(x)
    \/ \E x \in Positions : SimplySupportedShearForce(x)
    \/ \E args \in ArgLists : TwoSpanUnequalDeflection(args)
    \/ \E x \in Positions : TwoSpanUnequalBendingMoment(x)
    \/ \E x \in Positions : TwoSpanUnequalShearForce(x)

Spec == Init /\ [][Next]_vars

(***************************************************************************)
(* Vocabulary of the properties.                                           *)
(***************************************************************************)
SupportedConditions == {"simply-supported", "two-span-unequal"}

\* The last call was an engine call.
EngineCalled == call # None /\ call.op # "equation"

\* The last call evaluated the equation of analyzer an built by method.
Evaluated(an, method) ==
    /\ call # None
    /\ call.op = "equation"
    /\ Holds(an, method)

\* The position, the beam and the load of the last equation call.
X == call.args[1]

EqBeam == ret.equation.beam

EqLoad == ret.equation.load

\* The total length the equation of the held closure is defined on.
TotalLength ==
    IF ret.equation.analyzer = "simplySupported" THEN EqBeam.primarySpan
    ELSE RAdd(EqBeam.primarySpan, EqBeam.secondarySpan)

OnBeam == RGe(X, Zero) /\ RLe(X, TotalLength)

OffBeam == RLt(X, Zero) \/ RGt(X, TotalLength)

OutOfBounds == Error("x is out of bounds")

\* An error carries a name when one of its fields is that name.
Carries(err, name) == \E f \in DOMAIN err : err[f] = name

(***************************************************************************)
(* C1: every engine call with a condition name other than                  *)
(* "simply-supported" and "two-span-unequal" fails with the invalid        *)
(* condition error, the error carries the offending name, no record is     *)
(* returned and beam and load are left as they were.                       *)
(* The code refutes it: the message is the fixed text "Invalid condition", *)
(* and a name inherited from Object.prototype, such as "constructor", gets *)
(* past the test and ends in a TypeError.                                  *)
(***************************************************************************)
C1_InvalidConditionCarriesName ==
    [][(call' # None /\ call'.op # "equation" /\ call'.condition \notin SupportedConditions)
        => /\ thrown' # None
           /\ thrown'.name = "Error"
           /\ thrown'.message = "Invalid condition"
           /\ Carries(thrown', call'.condition)
           /\ ret' = None
           /\ beam' = beam
           /\ load' = load]_vars

(***************************************************************************)
(* C2: the three simply supported equations apply the same bounds check:   *)
(* off the beam (x < 0 or x > L) the call fails with the out-of-bounds     *)
(* error and returns no sample, on the beam it returns a sample.           *)
(* The code refutes it: the deflection equation tests x >= 0 || x <= L.    *)
(***************************************************************************)
C2_SimplySupportedBoundsCheck ==
    (call # None /\ call.op = "equation" /\ ret # None
        /\ ret.equation.analyzer = "simplySupported")
    => IF OffBeam THEN thrown = OutOfBounds /\ sample = None
       ELSE thrown = None /\ sample # None

(***************************************************************************)
(* C3: for both conditions and all three quantities, an evaluation off the *)
(* beam (x < 0, or x beyond the total length) fails with the out-of-bounds *)
(* error and returns no sample.                                            *)
(* The code refutes it: the two-span equations test no bounds at all.      *)
(***************************************************************************)
C3_OutOfBoundsFails ==
    (call # None /\ call.op = "equation" /\ ret # None /\ OffBeam)
    => thrown = OutOfBounds /\ sample = None

(***************************************************************************)
(* C4: for a supported condition name an engine call returns the record    *)
(* {beam, load, equation} with the beam and load passed and the equation   *)
(* of that condition's analyzer for the requested quantity; the call       *)
(* throws nothing and produces no sample; and no step of any run changes   *)
(* the engine's table, its options, the beam or the load.                  *)
(***************************************************************************)
MethodOf(op) ==
    IF op = "getDeflection" THEN "getDeflectionEquation"
    ELSE IF op = "getBendingMoment" THEN "getBendingMomentEquation"
    ELSE "getShearForceEquation"

AnalyzerOf(condition) ==
    IF condition = "simply-supported" THEN "simplySupported" ELSE "twoSpanUnequal"

C4_DispatchIsPure ==
    [][/\ analyzer' = analyzer
       /\ options' = options
       /\ beam' = beam
       /\ load' = load
       /\ (call'.op # "equation" /\ call'.condition \in SupportedConditions)
           => /\ ret' = [beam |-> beam, load |-> load,
                         equation |-> [analyzer |-> AnalyzerOf(call'.condition),
                                       method |-> MethodOf(call'.op),
                                       beam |-> beam, load |-> load]]
              /\ thrown' = None
              /\ sample' = None]_vars

C4_Witness ==
    /\ EngineCalled
    /\ call.op = "getBendingMoment"
    /\ call.condition = "two-span-unequal"
    /\ ret # None
    /\ ret.equation.analyzer = "twoSpanUnequal"
    /\ ret.load = Num(10)

(***************************************************************************)
(* C5: the simply supported bending moment obtained through the engine is  *)
(* y = -(w*x/2)*(L - x) on the beam, stated here as 2*y = -(w*x)*(L - x);  *)
(* it is -20 for L = 4, w = 10, x = 2; and the value at x equals the value *)
(* at L - x.                                                               *)
(***************************************************************************)
C5_SimplySupportedBendingMoment ==
    (Evaluated("simplySupported", "getBendingMomentEquation") /\ OnBeam)
    => LET w == EqLoad
           L == EqBeam.primarySpan
           mirror == SimplySupportedBendingMomentOutcome[EqBeam, EqLoad][RSub(L, X)]
       IN  /\ thrown = None
           /\ sample # None
           /\ sample.x = X
           /\ RMul(Num(2), sample.y) = RNeg(RMul(RMul(w, X), RSub(L, X)))
           /\ mirror.sample # None
           /\ sample.y = mirror.sample.y
           /\ (L = Num(4) /\ w = Num(10) /\ X = Num(2)) => sample.y = Num(-20)

C5_Witness ==
    /\ Evaluated("simplySupported", "getBendingMomentEquation")
    /\ EqBeam = Beam(Num(4), Num(0), Material("No Name", [EI |-> Num(210000)]))
    /\ EqLoad = Num(10)
    /\ X = Num(2)
    /\ sample # None
    /\ sample.y = Num(-20)

(***************************************************************************)
(* C6: with equal spans L1 = L2 = L the interior reaction R2 derived in a  *)
(* two-span equation call is (5/4)*w*L, and the derivations of m, R1, R3   *)
(* and R2 in the three equations agree.                                    *)
(***************************************************************************)
C6_EqualSpanInteriorReaction ==
    (call # None /\ call.op = "equation" /\ ret # None
        /\ ret.equation.analyzer = "twoSpanUnequal"
        /\ EqBeam.primarySpan = EqBeam.secondarySpan)
    => LET expected == RMul(RMul(Frac(5, 4), EqLoad), EqBeam.primarySpan)
       IN  /\ frame # None
           /\ frame.R2 = expected
           /\ DeflectionReactions(EqBeam, EqLoad).R2 = expected
           /\ BendingMomentReactions(EqBeam, EqLoad).R2 = expected
           /\ ShearForceReactions(EqBeam, EqLoad).R2 = expected
           /\ DeflectionReactions(EqBeam, EqLoad) = BendingMomentReactions(EqBeam, EqLoad)
           /\ BendingMomentReactions(EqBeam, EqLoad) = ShearForceReactions(EqBeam, EqLoad)

C6_Witness ==
    /\ Evaluated("twoSpanUnequal", "getShearForceEquation")
    /\ EqBeam.primarySpan = Num(2)
    /\ EqBeam.secondarySpan = Num(2)
    /\ EqLoad = Num(10)
    /\ frame # None
    /\ frame.R2 = Num(25)

(***************************************************************************)
(* C7 as stated: with m = (w*L2^3 + w*L1^3)/(8*(L1+L2)),                    *)
(* R1 = m/L1 + w*L1/2, R3 = m/L2 + w*L2/2 and R2 = w*(L1+L2) - R1 - R3,    *)
(* the two-span bending moment on the beam is R1*x - 0.5*w*x^2 for         *)
(* x <= L1 and R1*x + R2*(x - L1) - 0.5*w*x^2 for x > L1.                  *)
(* The code refutes it, already on beams whose second span is not 0 (the   *)
(* cases kept here): its m is the negative of that and it returns the      *)
(* negative of the bracket.                                                *)
(***************************************************************************)
\* The piecewise bracket of the claim, from given reactions.
C7_Bracket(x, w, L1, R1, R2) ==
    IF RLe(x, L1)
    THEN RSub(RMul(R1, x), RMul(RMul(Frac(1, 2), w), RMul(x, x)))
    ELSE RSub(RAdd(RMul(R1, x), RMul(R2, RSub(x, L1))),
              RMul(RMul(Frac(1, 2), w), RMul(x, x)))

\* (w*L2^3 + w*L1^3) / (8*(L1+L2))
C7_Magnitude(w, L1, L2) ==
    RDiv(RAdd(RMul(w, RMul(L2, RMul(L2, L2))), RMul(w, RMul(L1, RMul(L1, L1)))),
         RMul(Num(8), RAdd(L1, L2)))

\* R1, R3 and R2 from a given m.
C7_R1(m, w, L1) == RAdd(RDiv(m, L1), RDiv(RMul(w, L1), Num(2)))

C7_R3(m, w, L2) == RAdd(RDiv(m, L2), RDiv(RMul(w, L2), Num(2)))

C7_R2(m, w, L1, L2) ==
    RSub(RSub(RMul(w, RAdd(L1, L2)), C7_R1(m, w, L1)), C7_R3(m, w, L2))

C7_AsStated ==
    (Evaluated("twoSpanUnequal", "getBendingMomentEquation") /\ OnBeam
        /\ EqBeam.secondarySpan # Zero)
    => LET w  == EqLoad
           L1 == EqBeam.primarySpan
           L2 == EqBeam.secondarySpan
           m  == C7_Magnitude(w, L1, L2)
       IN  /\ sample # None
           /\ sample.y = C7_Bracket(X, w, L1, C7_R1(m, w, L1), C7_R2(m, w, L1, L2))

(***************************************************************************)
(* C7 amended: with m = -(w*L2^3 + w*L1^3)/(8*(L1+L2)) and R1, R3, R2      *)
(* derived from it as stated, the two-span bending moment on the beam is   *)
(* 0 at x = 0 and at x = L1+L2, -(R1*x - 0.5*w*x^2) for other x <= L1 and  *)
(* -(R1*x + R2*(x - L1) - 0.5*w*x^2) for other x > L1; the sample also     *)
(* reports R1 and m.                                                       *)
(***************************************************************************)
C7_TwoSpanBendingMoment ==
    (Evaluated("twoSpanUnequal", "getBendingMomentEquation") /\ OnBeam)
    => LET w  == EqLoad
           L1 == EqBeam.primarySpan
           L2 == EqBeam.secondarySpan
           m  == RNeg(C7_Magnitude(w, L1, L2))
       IN  /\ thrown = None
           /\ sample # None
           /\ sample.x = X
           /\ sample.M = m
           /\ sample.R1 = C7_R1(m, w, L1)
           /\ sample.y =
                 IF X = Zero \/ X = RAdd(L1, L2) THEN Zero
                 ELSE RNeg(C7_Bracket(X, w, L1, C7_R1(m, w, L1), C7_R2(m, w, L1, L2)))

C7_Witness ==
    /\ Evaluated("twoSpanUnequal", "getBendingMomentEquation")
    /\ EqBeam.primarySpan = Num(3)
    /\ EqBeam.secondarySpan = Num(2)
    /\ EqLoad = Num(10)
    /\ X = Frac(7, 2)
    /\ sample # None
    /\ sample.y = Frac(45, 16)

(***************************************************************************)
(* C8: for both conditions the deflection equation called without its      *)
(* second argument returns the sample of the call with 2 as the second     *)
(* argument, at every position on the beam.                                *)
(* The code refutes it, already on two-span beams whose second span is not *)
(* 0 (the cases kept here): the two-span deflection equation declares j2   *)
(* without a default, so its y is NaN when the argument is omitted.        *)
(***************************************************************************)
C8_DefaultScaleFactorIsTwo ==
    (call # None /\ call.op = "equation" /\ ret # None
        /\ ret.equation.method = "getDeflectionEquation"
        /\ Len(call.args) = 1 /\ OnBeam
        /\ (ret.equation.analyzer = "twoSpanUnequal" => EqBeam.secondarySpan # Zero))
    => LET withTwo ==
               IF ret.equation.analyzer = "simplySupported"
               THEN SimplySupportedDeflectionOutcome[EqBeam, EqLoad][<<X, Num(2)>>]
               ELSE TwoSpanUnequalDeflectionOutcome[EqBeam, EqLoad][<<X, Num(2)>>]
       IN  /\ sample # None
           /\ sample = withTwo.sample
           /\ ~IsNaN(sample.y)

(***************************************************************************)
(* C9: the simply supported deflection is 0 at x = 0 and at x = L, for     *)
(* every load, every flexural rigidity and every scale factor, given or    *)
(* omitted.                                                                *)
(***************************************************************************)
C9_SimplySupportedDeflectionAtSupports ==
    (Evaluated("simplySupported", "getDeflectionEquation")
        /\ (X = Zero \/ X = EqBeam.primarySpan))
    => /\ thrown = None
       /\ sample # None
       /\ sample.x = X
       /\ sample.y = Zero

C9_Witness ==
    /\ Evaluated("simplySupported", "getDeflectionEquation")
    /\ EqBeam.primarySpan = Num(3)
    /\ X = Num(3)
    /\ EqLoad = Num(10)
    /\ call.args = <<Num(3), Num(3)>>
    /\ sample # None
    /\ sample.y = Zero

(***************************************************************************)
(* C10: for a nonzero load the simply supported shear force on the beam is *)
(* w*(L/2 - x), stated here as 2*y = w*(L - 2*x); it is 0 exactly at       *)
(* x = L/2, has the sign of w before it and the opposite sign after it.    *)
(***************************************************************************)
C10_SimplySupportedShearForce ==
    (Evaluated("simplySupported", "getShearForceEquation") /\ OnBeam /\ EqLoad # Zero)
    => LET w == EqLoad
           L == EqBeam.primarySpan
           twoX == RAdd(X, X)
       IN  /\ thrown = None
           /\ sample # None
           /\ sample.x = X
           /\ RAdd(sample.y, sample.y) = RMul(w, RSub(L, twoX))
           /\ (sample.y = Zero) <=> (twoX = L)
           /\ RLt(twoX, L) => SignOf(sample.y) = SignOf(w)
           /\ RGt(twoX, L) => SignOf(sample.y) = -SignOf(w)

C10_Witness ==
    /\ Evaluated("simplySupported", "getShearForceEquation")
    /\ EqBeam.primarySpan = Num(3)
    /\ X = Frac(3, 2)
    /\ EqLoad = Num(10)
    /\ sample # None
    /\ sample.y = Zero

====
